---------------------------- MODULE Spec2Model ----------------------------
(*************************************************************************)
(* Model of the hospital pricing pipeline: process_data.py (pricing      *)
(* extractor, reference loaders, merge and export) and split_data.py     *)
(* (chunk partitioner).                                                  *)
(*                                                                       *)
(* Text is a sequence of one-character strings, so that int(), float(),  *)
(* str(), strip() and the :03d format are computed, not assumed.  Money  *)
(* is held in thousandths of a unit ("mills"): every modelled token has  *)
(* at most three decimals, so float arithmetic on it is exact here, and  *)
(* round(x, 2) really rounds (mills to cents).                           *)
(*************************************************************************)
EXTENDS Integers, Sequences, FiniteSets, TLC

VARIABLES
    price_file,       \* rows of 'Hospital Price Data.txt' after the header
    facility_file,    \* chd_facility_data.xlsx: [readable, rows]
    procedure_file,   \* Web Addendum B: [readable, rows]
    category_file,    \* Service Category Xwalk: [readable, rows]
    pc,               \* position of process_and_export_data
    row_idx,          \* pricing rows consumed by the reader so far
    hospitals_data,   \* the extractor's defaultdict: [order, rec]
    fac_idx,          \* facility rows consumed by df.iterrows() so far
    facility_map,     \* load_facility_data's local mapping being built
    facility_data,    \* what load_facility_data returned
    procedure_names,  \* what load_procedure_names returned
    service_cats,     \* what load_service_categories returned
    output_data,      \* the structure assembled by the merge stage
    output_file,      \* data/hospital_data.json on disk
    hospital_items,   \* split_data: list(hospitals.items()) of the run
    split_pc,         \* split_data: position of the script
    loop_i,           \* split_data: loop variable i
    chunks_info,      \* split_data: the list being appended to
    chunks_dir,       \* data/chunks: file name -> keys of the partition
    index_file,       \* data/chunks/index.json
    runs              \* partitioner runs started so far

pipeVars == <<price_file, facility_file, procedure_file, category_file, pc,
              row_idx, hospitals_data, fac_idx, facility_map, facility_data,
              procedure_names, service_cats, output_data, output_file>>
splitVars == <<hospital_items, split_pc, loop_i, chunks_info, chunks_dir,
               index_file, runs>>
vars == <<pipeVars, splitVars>>

(*************************************************************************)
(* Bounds of the model.                                                  *)
(*************************************************************************)
MaxRows == 2
MaxFacRows == 2
MaxChunks == 3
MaxRuns == 2

(*************************************************************************)
(* Text helpers: str.strip(), int(str), float(str).                      *)
(*************************************************************************)
Digits == {"0", "1", "2", "3", "4", "5", "6", "7", "8", "9"}

DigitVal(c) ==
    CASE c = "1" -> 1 [] c = "2" -> 2 [] c = "3" -> 3 [] c = "4" -> 4
      [] c = "5" -> 5 [] c = "6" -> 6 [] c = "7" -> 7 [] c = "8" -> 8
      [] c = "9" -> 9 [] OTHER -> 0

\* the decimal value of the first k characters of s
RECURSIVE DigitsUpTo(_, _)
DigitsUpTo(s, k) ==
    IF k = 0 THEN 0 ELSE 10 * DigitsUpTo(s, k - 1) + DigitVal(s[k])

DigitsValue(s) == DigitsUpTo(s, Len(s))

AllDigits(s) == \A k \in 1..Len(s) : s[k] \in Digits

\* str.strip(): the text between its first and last non-blank character
Strip(s) ==
    LET solid == {k \in 1..Len(s) : s[k] # " "}
    IN  IF solid = {} THEN <<>>
        ELSE SubSeq(s, CHOOSE k \in solid : \A j \in solid : k <= j,
                       CHOOSE k \in solid : \A j \in solid : j <= k)

Unsigned(s) == IF s # <<>> /\ s[1] \in {"+", "-"} THEN Tail(s) ELSE s

SignOf(s) == IF s # <<>> /\ s[1] = "-" THEN -1 ELSE 1

\* int(text) succeeds: optional blanks around an optionally signed digit run.
IntOk(s) == LET u == Unsigned(Strip(s)) IN u # <<>> /\ AllDigits(u)

IntValue(s) == SignOf(Strip(s)) * DigitsValue(Unsigned(Strip(s)))

DotsOf(u) == {k \in 1..Len(u) : u[k] = "."}

\* float(text) succeeds: an optionally signed decimal with at most one point
\* and at least one digit.  Exponents and the inf/nan spellings are outside
\* the token alphabet of the model.
FloatOk(s) ==
    LET u == Unsigned(Strip(s))
    IN  /\ Cardinality(DotsOf(u)) <= 1
        /\ \A k \in 1..Len(u) : u[k] \in Digits \cup {"."}
        /\ \E k \in 1..Len(u) : u[k] \in Digits

\* The value of float(text) in mills (three decimals are kept).
FloatMills(s) ==
    LET u == Unsigned(Strip(s))
        d == IF DotsOf(u) = {} THEN Len(u) + 1 ELSE CHOOSE k \in DotsOf(u) : TRUE
        whole == SubSeq(u, 1, d - 1)
        frac == SubSeq(u, d + 1, Len(u))
        frac3 == [k \in 1..3 |-> IF k <= Len(frac) THEN frac[k] ELSE "0"]
    IN  SignOf(Strip(s)) * (1000 * DigitsValue(whole) + DigitsValue(frac3))

\* round(x, 2) of an amount in mills, in cents (ties to even).
Round2(m) ==
    LET q == m \div 10
        r == m % 10
    IN  IF r < 5 THEN q
        ELSE IF r > 5 THEN q + 1
        ELSE IF q % 2 = 0 THEN q ELSE q + 1

\* round(total / volume, 2) for volume > 0, in cents (ties to even).
RoundQuot2(m, v) ==
    LET q == m \div (10 * v)
        r == m % (10 * v)
    IN  IF 2 * r < 10 * v THEN q
        ELSE IF 2 * r > 10 * v THEN q + 1
        ELSE IF q % 2 = 0 THEN q ELSE q + 1

(*************************************************************************)
(* Pricing extractor: load_hospital_price_data.                          *)
(* A row is [provnum, category, volume, TotalCharges, TotalCost,         *)
(* TotalPaid], each field the text csv.DictReader hands over.            *)
(*************************************************************************)

\* int(row['volume']) if row['volume'] else 0
ParseVolume(s) == IF s # <<>> THEN IntValue(s) ELSE 0

\* float(row[...]) if row[...] else 0, in mills
ParseAmount(s) == IF s # <<>> THEN FloatMills(s) ELSE 0

\* only the volume is converted strictly
RowRaisesVolumeOnly(row) == row.volume # <<>> /\ ~IntOk(row.volume)

\* One of the four conversions of the row raises ValueError.
RowRaises(row) ==
    \/ row.volume # <<>> /\ ~IntOk(row.volume)
    \/ row.TotalCharges # <<>> /\ ~FloatOk(row.TotalCharges)
    \/ row.TotalCost # <<>> /\ ~FloatOk(row.TotalCost)
    \/ row.TotalPaid # <<>> /\ ~FloatOk(row.TotalPaid)

\* an average that falls back to the total when there is no volume
AverageOrTotal(total, volume) ==
    IF volume > 0 THEN RoundQuot2(total, volume) ELSE Round2(total)

\* round(total / volume if volume > 0 else 0, 2), in cents
Average(total, volume) == IF volume > 0 THEN RoundQuot2(total, volume) ELSE 0

\* The dictionary stored for one procedure (money in cents).
ProcedureStat(row) ==
    LET volume == ParseVolume(row.volume)
        total_charges == ParseAmount(row.TotalCharges)
        total_cost == ParseAmount(row.TotalCost)
        total_paid == ParseAmount(row.TotalPaid)
    IN  [volume |-> volume,
         total_charges |-> Round2(total_charges),
         total_cost |-> Round2(total_cost),
         total_paid |-> Round2(total_paid),
         avg_charge |-> Average(total_charges, volume),
         avg_cost |-> Average(total_cost, volume),
         avg_paid |-> Average(total_paid, volume)]

\* The defaultdict's factory value (totals in mills, unrounded).
NewHospital ==
    [procedures |-> <<>>, total_volume |-> 0, total_charges |-> 0,
     total_cost |-> 0, total_paid |-> 0]

\* a store that keeps the first entry of a code
StoreProcedureFirst(procedures, category, stat) ==
    procedures @@ (category :> stat)

\* hospitals_data[provnum]['procedures'][category] = {...}
StoreProcedure(procedures, category, stat) == (category :> stat) @@ procedures

\* totals whose volume is assigned, not added
UpdateTotalsAssign(h, row) ==
    [h EXCEPT !.total_volume = ParseVolume(row.volume),
              !.total_charges = @ + ParseAmount(row.TotalCharges),
              !.total_cost = @ + ParseAmount(row.TotalCost),
              !.total_paid = @ + ParseAmount(row.TotalPaid)]

\* hospitals_data[provnum]['total_*'] += ...
UpdateTotals(h, row) ==
    [h EXCEPT !.total_volume = @ + ParseVolume(row.volume),
              !.total_charges = @ + ParseAmount(row.TotalCharges),
              !.total_cost = @ + ParseAmount(row.TotalCost),
              !.total_paid = @ + ParseAmount(row.TotalPaid)]

\* The body of the reader loop for one row that parses.  hd.order is the
\* insertion order of the dictionary's keys, hd.rec its values.
ApplyRow(hd, row) ==
    LET known == row.provnum \in DOMAIN hd.rec
        h == IF known THEN hd.rec[row.provnum] ELSE NewHospital
        stored == [h EXCEPT !.procedures =
                      StoreProcedure(@, row.category, ProcedureStat(row))]
    IN  [order |-> IF known THEN hd.order ELSE Append(hd.order, row.provnum),
         rec |-> (row.provnum :> UpdateTotals(stored, row)) @@ hd.rec]

EmptyDict == [order |-> <<>>, rec |-> <<>>]

(*************************************************************************)
(* Spreadsheet cells as pandas hands them over.  A cell is a Python int, *)
(* a float (n in tenths; only one decimal is modelled), a str or NaN.    *)
(*************************************************************************)
StrCell(text) == [t |-> "str", n |-> 0, v |-> text]
IntCell(n) == [t |-> "int", n |-> n, v |-> <<>>]
FloatCell(tenths) == [t |-> "float", n |-> tenths, v |-> <<>>]
NaN == [t |-> "nan", n |-> 0, v |-> <<>>]

DigitChar(d) == <<"0", "1", "2", "3", "4", "5", "6", "7", "8", "9">>[d + 1]

\* str(n) of a non-negative int
RECURSIVE ToDigits(_)
ToDigits(n) ==
    IF n < 10 THEN <<DigitChar(n)>>
    ELSE ToDigits(n \div 10) \o <<DigitChar(n % 10)>>

\* str(cell): 1 -> "1", 1.0 -> "1.0", NaN -> "nan", text unchanged
Str(cell) ==
    CASE cell.t = "str" -> cell.v
      [] cell.t = "int" -> ToDigits(cell.n)
      [] cell.t = "float" ->
            ToDigits(cell.n \div 10) \o <<".", DigitChar(cell.n % 10)>>
      [] OTHER -> <<"n", "a", "n">>

\* pd.notna(cell)
NotNa(cell) == cell.t # "nan"

nan == <<"n", "a", "n">>

(*************************************************************************)
(* Facility metadata loader: load_facility_data.                         *)
(*************************************************************************)

\* hospital_type_map: the keys 1 and 1.0 are one dictionary key in Python.
hospital_type_map ==
    (1 :> "Short-Term Acute") @@ (2 :> "Psychiatric") @@
    (4 :> "Rehabilitation") @@ (5 :> "Religious Non-Medical") @@
    (6 :> "Childrens") @@ (7 :> "Critical Access") @@
    (11 :> "Long Term Care")

ownership_map ==
    (<<"0", "1">> :> "Government, Federal") @@
    (<<"0", "2">> :> "Government, State") @@
    (<<"0", "3">> :> "Government, Local") @@
    (<<"0", "4">> :> "Government, Hospital District") @@
    (<<"0", "5">> :> "Government, City/County") @@
    (<<"0", "6">> :> "Voluntary Non-Profit, Church") @@
    (<<"0", "7">> :> "Voluntary Non-Profit, Private") @@
    (<<"0", "8">> :> "Voluntary Non-Profit, Other") @@
    (<<"0", "9">> :> "Proprietary, Individual") @@
    (<<"1", "0">> :> "Proprietary, Partnership") @@
    (<<"1", "1">> :> "Proprietary, Corporation") @@
    (<<"1", "2">> :> "Proprietary, Limited Liability Company") @@
    (<<"1", "3">> :> "Voluntary Non-Profit, Private") @@
    (<<"1", "A">> :> "Government, Federal") @@
    (<<"1", "B">> :> "Government, State") @@
    (<<"1", "C">> :> "Government, Local") @@
    (<<"2", "A">> :> "Voluntary Non-Profit, Church") @@
    (<<"2", "B">> :> "Voluntary Non-Profit, Other") @@
    (<<"2", "C">> :> "Voluntary Non-Profit, Private") @@
    (<<"3", "0">> :> "Government, Other")

\* hospital_type_map.get(code, '') if pd.notna(code) else ''
\* A str never equals a numeric key; a float equals it when it is integral.
HospitalType(cell) ==
    CASE cell.t = "int" /\ cell.n \in DOMAIN hospital_type_map ->
            hospital_type_map[cell.n]
      [] cell.t = "float" /\ cell.n % 10 = 0
                          /\ (cell.n \div 10) \in DOMAIN hospital_type_map ->
            hospital_type_map[cell.n \div 10]
      [] OTHER -> ""

\* ownership_map.get(str(code).strip(), '') if pd.notna(code) else ''
Ownership(cell) ==
    IF NotNa(cell) /\ Strip(Str(cell)) \in DOMAIN ownership_map
    THEN ownership_map[Strip(Str(cell))]
    ELSE ""

\* str(row.get(col, '')).strip() if pd.notna(row.get(col)) else ''
TextOf(cell) == IF NotNa(cell) THEN Strip(Str(cell)) ELSE <<>>

\* int(cell) raises ValueError: a str that is no integer literal
BedsRaises(cell) == cell.t = "str" /\ ~IntOk(cell.v)

\* int(row.get('beds_total', 0)) if pd.notna(...) else 0
BedsTotal(cell) ==
    CASE cell.t = "int" -> cell.n
      [] cell.t = "float" -> cell.n \div 10
      [] cell.t = "str" -> IntValue(cell.v)
      [] OTHER -> 0

\* if provnum and facility_name and facility_name != 'nan'
FacilityRowKept(row) ==
    /\ Strip(Str(row.provnum)) # <<>>
    /\ Strip(Str(row.facility_name)) # <<>>
    /\ Strip(Str(row.facility_name)) # nan

FacilityRowRaises(row) == FacilityRowKept(row) /\ BedsRaises(row.beds_total)

FacilityRecord(row) ==
    [name |-> Strip(Str(row.facility_name)),
     city |-> TextOf(row.city),
     state |-> TextOf(row.state_code),
     zip_code |-> TextOf(row.zip_code),
     beds_total |-> BedsTotal(row.beds_total),
     hospital_type |-> HospitalType(row.category_subtype_of_provider),
     ownership |-> Ownership(row.type_of_control)]

\* The body of the iterrows loop for one row that does not raise.
ApplyFacilityRow(fmap, row) ==
    IF FacilityRowKept(row)
    THEN (Strip(Str(row.provnum)) :> FacilityRecord(row)) @@ fmap
    ELSE fmap

\* a handler that returns what was parsed so far
FacilityExceptPartial(fmap) == fmap

\* except Exception: ... return {}
FacilityExcept(fmap) == <<>>

(*************************************************************************)
(* Procedure-name loader and service-category loader.  Their loop bodies *)
(* only call str() and strip(), so they fail on the read alone.          *)
(*************************************************************************)
RECURSIVE ProcedureMap(_)
ProcedureMap(rows) ==
    IF rows = <<>> THEN <<>>
    ELSE LET row == rows[Len(rows)]
             before == ProcedureMap(SubSeq(rows, 1, Len(rows) - 1))
             code == Strip(Str(row.code))
             description == Strip(Str(row.description))
         IN  IF code # <<>> /\ description # <<>> /\ code # nan
                /\ description # nan
             THEN (code :> description) @@ before
             ELSE before

load_procedure_names(file) ==
    IF file.readable THEN ProcedureMap(file.rows) ELSE <<>>

\* str.upper() on the letters the model's flags use
UpperChar(c) ==
    CASE c = "y" -> "Y" [] c = "n" -> "N" [] c = "a" -> "A" [] OTHER -> c

Upper(s) == [k \in 1..Len(s) |-> UpperChar(s[k])]

\* ord(c) for the characters of the model's category labels and file names
Ord(c) ==
    CASE c = " " -> 32 [] c = "." -> 46 [] c = "E" -> 69 [] c = "L" -> 76
      [] c = "R" -> 82 [] c = "_" -> 95 [] c = "a" -> 97 [] c = "b" -> 98
      [] c = "h" -> 104 [] c = "i" -> 105 [] c = "j" -> 106 [] c = "l" -> 108
      [] c = "n" -> 110 [] c = "o" -> 111 [] c = "p" -> 112 [] c = "s" -> 115
      [] c = "t" -> 116 [] OTHER -> 48 + DigitVal(c)

\* a < b for str, given that a and b agree before position k
RECURSIVE TextLessFrom(_, _, _)
TextLessFrom(a, b, k) ==
    IF k > Len(b) THEN FALSE
    ELSE IF k > Len(a) THEN TRUE
    ELSE IF Ord(a[k]) # Ord(b[k]) THEN Ord(a[k]) < Ord(b[k])
    ELSE TextLessFrom(a, b, k + 1)

TextLess(a, b) == TextLessFrom(a, b, 1)

\* sorted(list(categories_set))
RECURSIVE Sorted(_)
Sorted(set) ==
    IF set = {} THEN <<>>
    ELSE LET least == CHOOSE x \in set : \A y \in set \ {x} : TextLess(x, y)
         IN  <<least>> \o Sorted(set \ {least})

RECURSIVE CategoryMaps(_)
CategoryMaps(rows) ==
    IF rows = <<>>
    THEN [category_map |-> <<>>, shoppable_map |-> <<>>, categories_set |-> {}]
    ELSE LET row == rows[Len(rows)]
             before == CategoryMaps(SubSeq(rows, 1, Len(rows) - 1))
             code == Strip(Str(row.code))
             category == Strip(Str(row.category))
             shoppable == Upper(Strip(Str(row.shoppable)))
             keyed == code # <<>> /\ code # nan
             labelled == keyed /\ category # <<>> /\ category # nan
         IN  [category_map |->
                 IF labelled THEN (code :> category) @@ before.category_map
                 ELSE before.category_map,
              categories_set |->
                 IF labelled THEN before.categories_set \cup {category}
                 ELSE before.categories_set,
              shoppable_map |->
                 IF keyed /\ shoppable # <<>> /\ shoppable # Upper(nan)
                 THEN (code :> shoppable) @@ before.shoppable_map
                 ELSE before.shoppable_map]

load_service_categories(file) ==
    IF file.readable
    THEN LET maps == CategoryMaps(file.rows)
         IN  [category_map |-> maps.category_map,
              shoppable_map |-> maps.shoppable_map,
              unique_categories |-> Sorted(maps.categories_set)]
    ELSE [category_map |-> <<>>, shoppable_map |-> <<>>,
          unique_categories |-> <<>>]

(*************************************************************************)
(* Merge stage and export: process_and_export_data.                      *)
(*************************************************************************)

\* f'Hospital {provnum}'
DefaultName(provnum) ==
    <<"H", "o", "s", "p", "i", "t", "a", "l", " ">> \o provnum

\* facility_info = facility_data.get(provnum, {}) and the .get(field, default)
\* calls on it
FacilityInfo(fd, provnum) ==
    IF provnum \in DOMAIN fd THEN fd[provnum]
    ELSE [name |-> DefaultName(provnum), city |-> <<>>, state |-> <<>>,
          zip_code |-> <<>>, beds_total |-> 0, hospital_type |-> "",
          ownership |-> ""]

\* 'summary': {...} (money in cents)
Summary(data) ==
    [total_volume |-> data.total_volume,
     total_charges |-> Round2(data.total_charges),
     total_cost |-> Round2(data.total_cost),
     total_paid |-> Round2(data.total_paid),
     avg_charge_per_case |-> Average(data.total_charges, data.total_volume)]

UnifiedRecord(provnum, data, fd) ==
    LET info == FacilityInfo(fd, provnum)
    IN  [name |-> info.name, provnum |-> provnum, city |-> info.city,
         state |-> info.state, zip_code |-> info.zip_code,
         beds_total |-> info.beds_total,
         hospital_type |-> info.hospital_type, ownership |-> info.ownership,
         procedures |-> data.procedures, summary |-> Summary(data)]

\* a join that drops the facilities without metadata
FormatHospitalsInner(hd, fd) ==
    [order |-> SelectSeq(hd.order, LAMBDA p : p \in DOMAIN fd),
     rec |-> [p \in DOMAIN hd.rec \cap DOMAIN fd |->
                 UnifiedRecord(p, hd.rec[p], fd)]]

\* for provnum, data in hospitals_data.items(): output_data['hospitals'][...]
FormatHospitals(hd, fd) ==
    [order |-> hd.order,
     rec |-> [p \in DOMAIN hd.rec |-> UnifiedRecord(p, hd.rec[p], fd)]]

\* list(set(code for hospital in ... for code in hospital['procedures']))
ProcedureCodes(hd) == UNION {DOMAIN hd.rec[p].procedures : p \in DOMAIN hd.rec}

BuildOutput(hd, fd, names, cats) ==
    [hospitals |-> FormatHospitals(hd, fd),
     procedure_codes |-> ProcedureCodes(hd),
     procedure_names |-> names,
     service_categories |-> cats.unique_categories,
     service_category_map |-> cats.category_map,
     shoppable_map |-> cats.shoppable_map]

NoCategories ==
    [category_map |-> <<>>, shoppable_map |-> <<>>, unique_categories |-> <<>>]

NoOutput == BuildOutput(EmptyDict, <<>>, <<>>, NoCategories)

\* data/hospital_data.json: absent, or holding a dumped output_data
NoArtifact == [exists |-> FALSE, data |-> NoOutput]

Artifact(data) == [exists |-> TRUE, data |-> data]

(*************************************************************************)
(* Inputs of the pipeline.                                               *)
(*************************************************************************)
SeqsUpTo(S, n) == UNION {[1..k -> S] : k \in 0..n}

Provnums == {<<"0", "1">>, <<"0", "2">>}

ProcedureCodeTexts == {<<"9", "9">>, <<"7", "0">>}

\* volume and the three amounts of a pricing row
Payloads ==
    { [volume |-> <<"1", "0">>, TotalCharges |-> <<"1", "0", "0", "0">>,
       TotalCost |-> <<"6", "0", "0">>, TotalPaid |-> <<"7", "0", "0">>],
      [volume |-> <<>>, TotalCharges |-> <<"1", "2", ".", "3", "4", "5">>,
       TotalCost |-> <<>>, TotalPaid |-> <<"0", ".", "0", "0", "5">>],
      [volume |-> <<"2">>, TotalCharges |-> <<"-", "5", "0", ".", "5">>,
       TotalCost |-> <<"2", "0">>, TotalPaid |-> <<"0", ".", "0", "1", "5">>],
      [volume |-> <<"a", "b", "c">>, TotalCharges |-> <<"1", "0">>,
       TotalCost |-> <<"1", "0">>, TotalPaid |-> <<"1", "0">>],
      [volume |-> <<"0">>, TotalCharges |-> <<"1", "0">>,
       TotalCost |-> <<"1", "x">>, TotalPaid |-> <<"5">>] }

PriceRow(provnum, category, payload) ==
    [provnum |-> provnum, category |-> category, volume |-> payload.volume,
     TotalCharges |-> payload.TotalCharges, TotalCost |-> payload.TotalCost,
     TotalPaid |-> payload.TotalPaid]

PriceRows ==
    {PriceRow(p, c, x) : p \in Provnums, c \in ProcedureCodeTexts, x \in Payloads}

FacilityRow(provnum, name, beds, type, control) ==
    [provnum |-> provnum, facility_name |-> name,
     city |-> StrCell(<<"E", "R", " ">>), state_code |-> StrCell(<<"a", "L">>),
     zip_code |-> NaN, beds_total |-> beds,
     category_subtype_of_provider |-> type, type_of_control |-> control]

Unreadable == [readable |-> FALSE, rows |-> <<>>]

Readable(rows) == [readable |-> TRUE, rows |-> rows]

\* facility tables of the pipeline runs: missing file, a priced facility,
\* a facility without prices, and a table whose second row raises
FacilityFiles ==
    { Unreadable,
      Readable(<<FacilityRow(StrCell(<<" ", "0", "1">>), StrCell(<<"L", "a", "b">>),
                             FloatCell(1205), IntCell(1), StrCell(<<"0", "1">>))>>),
      Readable(<<FacilityRow(StrCell(<<"0", "3">>), StrCell(<<"E", "R">>),
                             NaN, IntCell(7), StrCell(<<"3", "0">>)),
                 FacilityRow(StrCell(<<"0", "2">>), NaN,
                             IntCell(40), NaN, NaN)>>),
      Readable(<<FacilityRow(StrCell(<<"0", "2">>), StrCell(<<"E", "R">>),
                             StrCell(<<"8", "0">>), FloatCell(20), NaN),
                 FacilityRow(StrCell(<<"0", "1">>), StrCell(<<"L", "a", "b">>),
                             StrCell(<<"1", "x">>), IntCell(1), NaN)>>) }

\* facility rows over the encodings of the two code columns
NameAndBeds ==
    { <<StrCell(<<"L", "a", "b">>), FloatCell(1205)>>,
      <<StrCell(<<"E", "R">>), StrCell(<<"1", "x">>)>>,
      <<NaN, IntCell(40)>> }

TypeAndControl ==
    { <<IntCell(1), StrCell(<<"0", "1">>)>>,
      <<FloatCell(10), IntCell(1)>>,
      <<StrCell(<<"1">>), FloatCell(10)>>,
      <<NaN, StrCell(<<" ", "1", "A">>)>> }

CodedRows ==
    {FacilityRow(StrCell(p), nb[1], nb[2], tc[1], tc[2]) :
        p \in {<<" ", "0", "1">>, <<"0", "3">>},
        nb \in NameAndBeds, tc \in TypeAndControl}

\* the pricing extracts of the loader runs
LoaderPrices ==
    <<PriceRow(<<"0", "1">>, <<"9", "9">>,
               [volume |-> <<"1", "0">>, TotalCharges |-> <<"1", "0", "0", "0">>,
                TotalCost |-> <<"6", "0", "0">>, TotalPaid |-> <<"7", "0", "0">>]),
      PriceRow(<<"0", "2">>, <<"7", "0">>,
               [volume |-> <<"0">>, TotalCharges |-> <<"5">>,
                TotalCost |-> <<>>, TotalPaid |-> <<>>])>>

BadPriceRow ==
    PriceRow(<<"0", "1">>, <<"9", "9">>,
             [volume |-> <<"1", ".", "5">>, TotalCharges |-> <<"5">>,
              TotalCost |-> <<>>, TotalPaid |-> <<>>])

ProcedureFiles ==
    { Unreadable,
      Readable(<<[code |-> StrCell(<<"9", "9">>),
                  description |-> StrCell(<<"L", "a", "b", " ">>)],
                 [code |-> StrCell(<<"7", "0">>), description |-> NaN]>>) }

CategoryFiles ==
    { Unreadable,
      Readable(<<[code |-> StrCell(<<"9", "9">>),
                  category |-> StrCell(<<"L", "a", "b">>),
                  shoppable |-> StrCell(<<"y">>)],
                 [code |-> StrCell(<<"7", "0">>),
                  category |-> StrCell(<<"E", "R">>), shoppable |-> NaN]>>) }

\* load_hospital_price_data on a file whose rows all parse
RECURSIVE Extract(_)
Extract(rows) ==
    IF rows = <<>> THEN EmptyDict
    ELSE ApplyRow(Extract(SubSeq(rows, 1, Len(rows) - 1)), rows[Len(rows)])

\* the artifact an earlier run left behind
PriorArtifact ==
    Artifact(BuildOutput(
        Extract(<<PriceRow(<<"0", "9">>, <<"9", "9">>,
                           [volume |-> <<"1">>, TotalCharges |-> <<"5">>,
                            TotalCost |-> <<"4">>, TotalPaid |-> <<"3">>])>>),
        <<>>, <<>>, NoCategories))

(*************************************************************************)
(* Chunk partitioner: split_data.py.  The hospitals mapping of the       *)
(* artifact is the sequence of its keys in iteration order; a facility   *)
(* id is stood for by a number and each record travels with its key.     *)
(* metadata.json and the size_mb of a partition are not modelled.        *)
(*************************************************************************)
chunk_size == 1000

\* hospital mappings of 0 .. MaxChunks * chunk_size facilities, in ascending
\* or descending key order
ArtifactSizes ==
    {0, 1, chunk_size - 1, chunk_size + 1}
        \cup {c * (chunk_size \div 2) : c \in 1..(2 * MaxChunks)}

Hospitals(n, descending) ==
    [k \in 1..n |-> IF descending THEN n + 1 - k ELSE k]

UnifiedArtifacts ==
    {Hospitals(n, d) : n \in ArtifactSizes, d \in BOOLEAN}

\* a slice that loses its last item
SliceShort(items, i, j) ==
    SubSeq(items, i + 1, (IF j < Len(items) THEN j ELSE Len(items)) - 1)

\* items[i:j]
Slice(items, i, j) ==
    SubSeq(items, i + 1, IF j < Len(items) THEN j ELSE Len(items))

\* the chunk number without its padding
PadNone(chunk_num) == ToDigits(chunk_num)

\* f'{chunk_num:03d}'
Pad3(chunk_num) ==
    LET digits == ToDigits(chunk_num)
    IN  [k \in 1..(3 - Len(digits)) |-> "0"] \o digits

\* f'hospitals_{chunk_num:03d}.json'
FileName(chunk_num) ==
    <<"h", "o", "s", "p", "i", "t", "a", "l", "s", "_">> \o Pad3(chunk_num)
        \o <<".", "j", "s", "o", "n">>

NoIndex ==
    [exists |-> FALSE, total_hospitals |-> 0, chunk_size |-> 0, chunks |-> <<>>]

(*************************************************************************)
(* process_and_export_data, step by step.                                *)
(*************************************************************************)
SplitIdle ==
    /\ hospital_items = <<>>
    /\ split_pc = "idle"
    /\ loop_i = 0
    /\ chunks_info = <<>>
    /\ chunks_dir = <<>>
    /\ index_file = NoIndex
    /\ runs = 0

PipelineStart ==
    /\ pc = "load_prices"
    /\ row_idx = 0
    /\ hospitals_data = EmptyDict
    /\ fac_idx = 0
    /\ facility_map = <<>>
    /\ facility_data = <<>>
    /\ procedure_names = <<>>
    /\ service_cats = NoCategories
    /\ output_data = NoOutput

\* Runs over every pricing extract of up to MaxRows rows.
Init ==
    /\ price_file \in SeqsUpTo(PriceRows, MaxRows)
    /\ facility_file \in FacilityFiles
    /\ \E file \in ProcedureFiles :
          /\ procedure_file = file
          /\ category_file \in {c \in CategoryFiles : c.readable = file.readable}
    /\ output_file \in {NoArtifact, PriorArtifact}
    /\ PipelineStart
    /\ SplitIdle

\* Runs over every facility table of up to MaxFacRows rows.
InitLoader ==
    /\ \/ /\ price_file = LoaderPrices
          /\ facility_file \in
                 {Unreadable} \cup {Readable(r) : r \in SeqsUpTo(CodedRows, MaxFacRows)}
          /\ procedure_file \in ProcedureFiles
          /\ category_file \in CategoryFiles
       \/ /\ price_file = <<BadPriceRow>>
          /\ facility_file = Unreadable
          /\ procedure_file = Unreadable
          /\ category_file = Unreadable
    /\ output_file = NoArtifact
    /\ PipelineStart
    /\ SplitIdle

inputs == <<price_file, facility_file, procedure_file, category_file>>

\* for row in reader: one row that parses
ReadPriceRow ==
    /\ pc = "load_prices"
    /\ row_idx < Len(price_file)
    /\ ~RowRaises(price_file[row_idx + 1])
    /\ hospitals_data' = ApplyRow(hospitals_data, price_file[row_idx + 1])
    /\ row_idx' = row_idx + 1
    /\ UNCHANGED <<inputs, pc, fac_idx, facility_map, facility_data,
                   procedure_names, service_cats, output_data, output_file,
                   splitVars>>

\* a conversion raises ValueError; nothing catches it and the run ends
PriceRowRaises ==
    /\ pc = "load_prices"
    /\ row_idx < Len(price_file)
    /\ RowRaises(price_file[row_idx + 1])
    /\ pc' = "crashed"
    /\ UNCHANGED <<inputs, row_idx, hospitals_data, fac_idx, facility_map,
                   facility_data, procedure_names, service_cats, output_data,
                   output_file, splitVars>>

\* the reader is exhausted: return hospitals_data
PricesLoaded ==
    /\ pc = "load_prices"
    /\ row_idx = Len(price_file)
    /\ pc' = "read_facility"
    /\ UNCHANGED <<inputs, row_idx, hospitals_data, fac_idx, facility_map,
                   facility_data, procedure_names, service_cats, output_data,
                   output_file, splitVars>>

\* pd.read_excel succeeds; facility_map = {}
ReadFacilityFile ==
    /\ pc = "read_facility"
    /\ facility_file.readable
    /\ pc' = "facility_rows"
    /\ fac_idx' = 0
    /\ facility_map' = <<>>
    /\ UNCHANGED <<inputs, row_idx, hospitals_data, facility_data,
                   procedure_names, service_cats, output_data, output_file,
                   splitVars>>

\* pd.read_excel raises: the handler returns
FacilityFileFails ==
    /\ pc = "read_facility"
    /\ ~facility_file.readable
    /\ facility_data' = FacilityExcept(facility_map)
    /\ pc' = "load_procedures"
    /\ UNCHANGED <<inputs, row_idx, hospitals_data, fac_idx, facility_map,
                   procedure_names, service_cats, output_data, output_file,
                   splitVars>>

\* for _, row in df.iterrows(): one row that does not raise
ReadFacilityRow ==
    /\ pc = "facility_rows"
    /\ fac_idx < Len(facility_file.rows)
    /\ ~FacilityRowRaises(facility_file.rows[fac_idx + 1])
    /\ facility_map' =
           ApplyFacilityRow(facility_map, facility_file.rows[fac_idx + 1])
    /\ fac_idx' = fac_idx + 1
    /\ UNCHANGED <<inputs, pc, row_idx, hospitals_data, facility_data,
                   procedure_names, service_cats, output_data, output_file,
                   splitVars>>

\* int(beds_total) raises inside the loop: the handler returns
FacilityRowFails ==
    /\ pc = "facility_rows"
    /\ fac_idx < Len(facility_file.rows)
    /\ FacilityRowRaises(facility_file.rows[fac_idx + 1])
    /\ facility_data' = FacilityExcept(facility_map)
    /\ pc' = "load_procedures"
    /\ UNCHANGED <<inputs, row_idx, hospitals_data, fac_idx, facility_map,
                   procedure_names, service_cats, output_data, output_file,
                   splitVars>>

\* the loop ends: return facility_map
FacilityLoaded ==
    /\ pc = "facility_rows"
    /\ fac_idx = Len(facility_file.rows)
    /\ facility_data' = facility_map
    /\ pc' = "load_procedures"
    /\ UNCHANGED <<inputs, row_idx, hospitals_data, fac_idx, facility_map,
                   procedure_names, service_cats, output_data, output_file,
                   splitVars>>

LoadProcedureNames ==
    /\ pc = "load_procedures"
    /\ procedure_names' = load_procedure_names(procedure_file)
    /\ pc' = "load_categories"
    /\ UNCHANGED <<inputs, row_idx, hospitals_data, fac_idx, facility_map,
                   facility_data, service_cats, output_data, output_file,
                   splitVars>>

LoadServiceCategories ==
    /\ pc = "load_categories"
    /\ service_cats' = load_service_categories(category_file)
    /\ pc' = "merge"
    /\ UNCHANGED <<inputs, row_idx, hospitals_data, fac_idx, facility_map,
                   facility_data, procedure_names, output_data, output_file,
                   splitVars>>

\* output_data = {...} and the loop that formats the hospitals
Merge ==
    /\ pc = "merge"
    /\ output_data' = BuildOutput(hospitals_data, facility_data,
                                  procedure_names, service_cats)
    /\ pc' = "save"
    /\ UNCHANGED <<inputs, row_idx, hospitals_data, fac_idx, facility_map,
                   facility_data, procedure_names, service_cats, output_file,
                   splitVars>>

\* json.dump(output_data, f, indent=2)
Save ==
    /\ pc = "save"
    /\ output_file' = Artifact(output_data)
    /\ pc' = "done"
    /\ UNCHANGED <<inputs, row_idx, hospitals_data, fac_idx, facility_map,
                   facility_data, procedure_names, service_cats, output_data,
                   splitVars>>

Next ==
    \/ ReadPriceRow
    \/ PriceRowRaises
    \/ PricesLoaded
    \/ ReadFacilityFile
    \/ FacilityFileFails
    \/ ReadFacilityRow
    \/ FacilityRowFails
    \/ FacilityLoaded
    \/ LoadProcedureNames
    \/ LoadServiceCategories
    \/ Merge
    \/ Save

Spec == Init /\ [][Next]_vars

SpecLoader == InitLoader /\ [][Next]_vars

(*************************************************************************)
(* split_data.py, step by step.                                          *)
(*************************************************************************)

\* json.load of the artifact, os.makedirs(exist_ok=True), the metadata file
\* and the set-up of the loop
StartSplit(hospitals) ==
    /\ split_pc \in {"idle", "done"}
    /\ runs < MaxRuns
    /\ runs' = runs + 1
    /\ hospital_items' = hospitals
    /\ loop_i' = 0
    /\ chunks_info' = <<>>
    /\ split_pc' = "chunking"
    /\ UNCHANGED <<chunks_dir, index_file, pipeVars>>

\* one iteration of: for i in range(0, len(hospital_items), chunk_size)
WriteChunk ==
    /\ split_pc = "chunking"
    /\ loop_i < Len(hospital_items)
    /\ LET chunk_num == loop_i \div chunk_size
           chunk == Slice(hospital_items, loop_i, loop_i + chunk_size)
           filename == FileName(chunk_num)
       IN  /\ chunks_dir' = (filename :> chunk) @@ chunks_dir
           /\ chunks_info' =
                  Append(chunks_info, [file |-> filename, hospitals |-> Len(chunk)])
    /\ loop_i' = loop_i + chunk_size
    /\ UNCHANGED <<hospital_items, split_pc, index_file, runs, pipeVars>>

\* the loop is over: write index.json
WriteIndex ==
    /\ split_pc = "chunking"
    /\ loop_i >= Len(hospital_items)
    /\ index_file' = [exists |-> TRUE,
                      total_hospitals |-> Len(hospital_items),
                      chunk_size |-> chunk_size,
                      chunks |-> chunks_info]
    /\ split_pc' = "done"
    /\ UNCHANGED <<hospital_items, loop_i, chunks_info, chunks_dir, runs,
                   pipeVars>>

InitSplit ==
    /\ price_file = <<>>
    /\ facility_file = Unreadable
    /\ procedure_file = Unreadable
    /\ category_file = Unreadable
    /\ output_file = NoArtifact
    /\ PipelineStart
    /\ SplitIdle

NextSplit ==
    \/ \E hospitals \in UnifiedArtifacts : StartSplit(hospitals)
    \/ WriteChunk
    \/ WriteIndex

SpecSplit == InitSplit /\ [][NextSplit]_vars

(*************************************************************************)
(* Properties of the chunk partitioner (checked under SpecSplit).        *)
(*************************************************************************)
RangeOf(f) == {f[x] : x \in DOMAIN f}

\* the partition files the finished run wrote, as index.json names them
IndexedFiles == {index_file.chunks[k].file : k \in 1..Len(index_file.chunks)}

RECURSIVE KeysOf(_)
KeysOf(names) ==
    IF names = <<>> THEN <<>>
    ELSE chunks_dir[Head(names)] \o KeysOf(Tail(names))

RECURSIVE SumHospitals(_)
SumHospitals(infos) ==
    IF infos = <<>> THEN 0
    ELSE Head(infos).hospitals + SumHospitals(Tail(infos))

\* C1: after a run, the keys of the run's partitions, taken in filename
\* order, hold every key of the hospitals mapping exactly once and no other
\* key; index.json's total_hospitals is the number of keys and equals the sum
\* of the per-chunk counts.
C1_PartitionsCoverHospitals ==
    split_pc = "done" =>
        LET keys == KeysOf(Sorted(IndexedFiles))
        IN  /\ RangeOf(keys) = RangeOf(hospital_items)
            /\ Cardinality(RangeOf(keys)) = Len(keys)
            /\ index_file.total_hospitals = Cardinality(RangeOf(hospital_items))
            /\ SumHospitals(index_file.chunks) = index_file.total_hospitals

\* a second run, over 1001 facilities, has finished
C1_Witness ==
    split_pc = "done" /\ runs = 2 /\ Len(hospital_items) = 1001

\* the text is hospitals_ddd.json with ddd the three-digit decimal of n
IsPartitionName(name, n) ==
    /\ Len(name) = 18
    /\ SubSeq(name, 1, 10) = <<"h", "o", "s", "p", "i", "t", "a", "l", "s", "_">>
    /\ SubSeq(name, 14, 18) = <<".", "j", "s", "o", "n">>
    /\ AllDigits(SubSeq(name, 11, 13))
    /\ DigitsValue(SubSeq(name, 11, 13)) = n

\* C2: a run over n facilities writes ceil(n/1000) partitions named
\* hospitals_000, hospitals_001, ...; the facility at position k is in
\* partition floor(k/1000); every partition but the last holds 1000
\* facilities, the last between 1 and 1000; index.json lists them in order.
C2_FixedSizeChunks ==
    split_pc = "done" =>
        LET n == Len(hospital_items)
            m == (n + 999) \div 1000
            chunks == index_file.chunks
        IN  /\ Len(chunks) = m
            /\ \A j \in 1..m :
                  /\ IsPartitionName(chunks[j].file, j - 1)
                  /\ chunks[j].file \in DOMAIN chunks_dir
                  /\ Len(chunks_dir[chunks[j].file]) = chunks[j].hospitals
                  /\ j < m => chunks[j].hospitals = 1000
                  /\ j = m => chunks[j].hospitals \in 1..1000
            /\ \A k \in 0..(n - 1) :
                  chunks_dir[chunks[(k \div 1000) + 1].file][(k % 1000) + 1]
                      = hospital_items[k + 1]

\* 2500 facilities were split into 1000/1000/500
C2_Witness ==
    /\ split_pc = "done"
    /\ Len(hospital_items) = 2500
    /\ [k \in 1..Len(index_file.chunks) |-> index_file.chunks[k].hospitals]
           = <<1000, 1000, 500>>

\* C10: after any sequence of runs the hospitals_NNN.json files in the chunks
\* directory are exactly the files the latest index.json lists.
C10_ArtifactSetReplaced ==
    split_pc = "done" => DOMAIN chunks_dir = IndexedFiles

(*************************************************************************)
(* Properties of the extractor and the merge stage (checked under Spec). *)
(*************************************************************************)
RowsOf(provnum) ==
    {k \in 1..Len(price_file) : price_file[k].provnum = provnum}

RowsOfPair(provnum, category) ==
    {k \in RowsOf(provnum) : price_file[k].category = category}

PricedFacilities == {price_file[k].provnum : k \in 1..Len(price_file)}

Merged == pc \in {"save", "done"}

\* C3: the merged hospitals mapping has exactly one record for every
\* facility of the pricing extract and none for any other; a priced facility
\* without metadata gets the name 'Hospital {provnum}', empty city, state
\* and zip_code, beds_total 0 and empty hospital_type and ownership.
C3_OneRecordPerPricedFacility ==
    Merged =>
        LET hospitals == output_data.hospitals
        IN  /\ DOMAIN hospitals.rec = PricedFacilities
            /\ RangeOf(hospitals.order) = PricedFacilities
            /\ Len(hospitals.order) = Cardinality(PricedFacilities)
            /\ \A p \in PricedFacilities :
                  /\ hospitals.rec[p].provnum = p
                  /\ p \notin DOMAIN facility_data =>
                        /\ hospitals.rec[p].name =
                              <<"H", "o", "s", "p", "i", "t", "a", "l", " ">> \o p
                        /\ hospitals.rec[p].city = <<>>
                        /\ hospitals.rec[p].state = <<>>
                        /\ hospitals.rec[p].zip_code = <<>>
                        /\ hospitals.rec[p].beds_total = 0
                        /\ hospitals.rec[p].hospital_type = ""
                        /\ hospitals.rec[p].ownership = ""

\* two priced facilities were merged with metadata that knows only a
\* facility without prices
C3_Witness ==
    /\ pc = "done"
    /\ Cardinality(PricedFacilities) = 2
    /\ DOMAIN facility_data # {}
    /\ DOMAIN facility_data \cap PricedFacilities = {}
    /\ DOMAIN output_file.data.hospitals.rec = PricedFacilities

NoDuplicateRows ==
    \A j, k \in 1..Len(price_file) :
        (/\ price_file[j].provnum = price_file[k].provnum
         /\ price_file[j].category = price_file[k].category) => j = k

RECURSIVE SumVolumes(_)
SumVolumes(procedures) ==
    IF DOMAIN procedures = {} THEN 0
    ELSE LET c == CHOOSE x \in DOMAIN procedures : TRUE
         IN  procedures[c].volume
                 + SumVolumes([x \in DOMAIN procedures \ {c} |-> procedures[x]])

\* C4: when no two rows of the extract share (facility_id, procedure_code),
\* every facility's summary total_volume is the sum of the volumes of its
\* procedures.
C4_TotalVolumeIsSum ==
    (Merged /\ NoDuplicateRows) =>
        \A p \in DOMAIN output_data.hospitals.rec :
            output_data.hospitals.rec[p].summary.total_volume
                = SumVolumes(output_data.hospitals.rec[p].procedures)

\* a facility with two procedures of volumes 10 and 2
C4_Witness ==
    /\ Merged
    /\ NoDuplicateRows
    /\ \E p \in DOMAIN output_data.hospitals.rec :
          /\ Cardinality(DOMAIN output_data.hospitals.rec[p].procedures) = 2
          /\ output_data.hospitals.rec[p].summary.total_volume = 12

\* the rows consumed so far
Consumed(rows) == {k \in rows : k <= row_idx}

LastOf(rows) == CHOOSE k \in rows : \A j \in rows : j <= k

Abs(x) == IF x < 0 THEN -x ELSE x

\* avg (cents) is total (mills) / volume to the 2-decimal rounding, or 0
\* when there is no volume
IsAverage(avg, total, volume) ==
    IF volume > 0 THEN 2 * Abs(10 * volume * avg - total) <= 10 * volume
    ELSE avg = 0

StoredPairs ==
    {<<p, c>> \in Provnums \X ProcedureCodeTexts :
        /\ p \in DOMAIN hospitals_data.rec
        /\ c \in DOMAIN hospitals_data.rec[p].procedures}

\* the three averages of the stored entry against the row it came from
AveragesOf(p, c) ==
    LET stat == hospitals_data.rec[p].procedures[c]
        row == price_file[LastOf(Consumed(RowsOfPair(p, c)))]
    IN  <<[avg |-> stat.avg_charge, total |-> ParseAmount(row.TotalCharges),
           volume |-> stat.volume],
          [avg |-> stat.avg_cost, total |-> ParseAmount(row.TotalCost),
           volume |-> stat.volume],
          [avg |-> stat.avg_paid, total |-> ParseAmount(row.TotalPaid),
           volume |-> stat.volume]>>

\* C5 as stated: every stored average is total / volume (rounded) when
\* volume > 0 and 0 otherwise, and is never negative.
C5_AveragesNeverNegative ==
    \A pair \in StoredPairs :
        \A a \in RangeOf(AveragesOf(pair[1], pair[2])) :
            IsAverage(a.avg, a.total, a.volume) /\ a.avg >= 0

\* C5 as amended: every stored average is total / volume (rounded) when
\* volume > 0 and 0 otherwise, and is not negative unless its total is.
C5_AveragesGuarded ==
    \A pair \in StoredPairs :
        \A a \in RangeOf(AveragesOf(pair[1], pair[2])) :
            /\ IsAverage(a.avg, a.total, a.volume)
            /\ a.total >= 0 => a.avg >= 0

\* one stored entry has no volume but a total, another an average that had
\* to be rounded
C5_Witness ==
    /\ \E pair \in StoredPairs :
          \E a \in RangeOf(AveragesOf(pair[1], pair[2])) :
              a.volume = 0 /\ a.total > 0 /\ a.avg = 0
    /\ \E pair \in StoredPairs :
          \E a \in RangeOf(AveragesOf(pair[1], pair[2])) :
              a.volume > 0 /\ 10 * a.volume * a.avg # a.total

\* the sum of amounts[k] over the rows k
RECURSIVE SumRows(_, _)
SumRows(rows, amounts) ==
    IF rows = {} THEN 0
    ELSE LET k == CHOOSE x \in rows : TRUE
         IN  amounts[k] + SumRows(rows \ {k}, amounts)

VolumeOfRow == [k \in 1..Len(price_file) |-> ParseVolume(price_file[k].volume)]
ChargesOfRow ==
    [k \in 1..Len(price_file) |-> ParseAmount(price_file[k].TotalCharges)]
CostOfRow == [k \in 1..Len(price_file) |-> ParseAmount(price_file[k].TotalCost)]
PaidOfRow == [k \in 1..Len(price_file) |-> ParseAmount(price_file[k].TotalPaid)]

Extracted == pc \notin {"load_prices", "crashed"}

DuplicatedPairs ==
    {<<p, c>> \in Provnums \X ProcedureCodeTexts :
        Cardinality(RowsOfPair(p, c)) >= 2}

\* C6: for a (facility_id, procedure_code) pair with several rows the
\* procedures mapping holds the values of the last row in file order, and the
\* facility's running totals are the sums over all its rows.
C6_LastRowWinsTotalsAdd ==
    Extracted =>
        \A pair \in DuplicatedPairs :
            LET p == pair[1]
                h == hospitals_data.rec[p]
            IN  /\ h.procedures[pair[2]] =
                       ProcedureStat(price_file[LastOf(RowsOfPair(p, pair[2]))])
                /\ h.total_volume = SumRows(RowsOf(p), VolumeOfRow)
                /\ h.total_charges = SumRows(RowsOf(p), ChargesOfRow)
                /\ h.total_cost = SumRows(RowsOf(p), CostOfRow)
                /\ h.total_paid = SumRows(RowsOf(p), PaidOfRow)

\* a pair was priced twice with different volumes
C6_Witness ==
    /\ Extracted
    /\ \E pair \in DuplicatedPairs :
          LET rows == RowsOfPair(pair[1], pair[2])
          IN  \E j, k \in rows :
                  /\ j < k
                  /\ ParseVolume(price_file[j].volume) > 0
                  /\ ParseVolume(price_file[k].volume) > 0
                  /\ price_file[j].volume # price_file[k].volume

\* a volume or amount that is neither blank nor a number
NonNumeric(s) == Strip(s) # <<>> /\ ~FloatOk(s)

MalformedRows ==
    {k \in 1..Len(price_file) :
        \/ NonNumeric(price_file[k].volume)
        \/ NonNumeric(price_file[k].TotalCharges)
        \/ NonNumeric(price_file[k].TotalCost)
        \/ NonNumeric(price_file[k].TotalPaid)}

FacilityReturned == pc \notin {"load_prices", "crashed", "read_facility",
                               "facility_rows"}

\* the facility loader hits a failure: the read fails or a row raises
FacilityFails ==
    \/ ~facility_file.readable
    \/ \E k \in 1..Len(facility_file.rows) :
          FacilityRowRaises(facility_file.rows[k])

PriceRowsParse == \A k \in 1..Len(price_file) : ~RowRaises(price_file[k])

\* C7: a reference loader that hits a read or parse failure, also on a row
\* after others were parsed, raises nothing and returns the empty mapping
\* (empty mappings and the empty list for the service categories); the run is
\* not ended by it, and at its end the artifact has a record per priced
\* facility.
C7_LoadersDegradeToEmpty ==
    /\ (FacilityReturned /\ FacilityFails) => facility_data = <<>>
    /\ (pc \in {"load_categories", "merge", "save", "done"}
            /\ ~procedure_file.readable) => procedure_names = <<>>
    /\ (pc \in {"merge", "save", "done"} /\ ~category_file.readable) =>
            service_cats = [category_map |-> <<>>, shoppable_map |-> <<>>,
                            unique_categories |-> <<>>]
    /\ pc = "crashed" => (row_idx < Len(price_file) /\ ~PriceRowsParse)
    /\ pc = "done" =>
          /\ output_file.exists
          /\ DOMAIN output_file.data.hospitals.rec = PricedFacilities

\* the facility loader failed on a row after it had parsed another, the two
\* other loaders failed on the read, and the run still wrote its artifact
C7_Witness ==
    /\ pc = "done"
    /\ facility_file.readable
    /\ facility_map # <<>>
    /\ facility_data = <<>>
    /\ ~procedure_file.readable
    /\ ~category_file.readable
    /\ Cardinality(DOMAIN output_file.data.hospitals.rec) = 2

\* the code a cell stands for, whatever its encoding: 1, 1.0, "1" and "01"
\* all stand for 1 (-1: the cell stands for no code number)
CodeOf(cell) ==
    CASE cell.t = "int" -> cell.n
      [] cell.t = "float" /\ cell.n % 10 = 0 -> cell.n \div 10
      [] cell.t = "str" /\ IntOk(cell.v) -> IntValue(cell.v)
      [] OTHER -> -1

\* the rows whose record is in the loaded mapping
LoadedRows ==
    {k \in 1..Len(facility_file.rows) :
        /\ FacilityRowKept(facility_file.rows[k])
        /\ \A j \in (k + 1)..Len(facility_file.rows) :
              FacilityRowKept(facility_file.rows[j]) =>
                  Strip(Str(facility_file.rows[j].provnum))
                      # Strip(Str(facility_file.rows[k].provnum))}

LoadedRecord(k) == facility_data[Strip(Str(facility_file.rows[k].provnum))]

\* C9: the numeric and the string encodings of one hospital-type code, or of
\* one ownership code, get the same label.
C9_EncodingsShareLabel ==
    (FacilityReturned /\ ~FacilityFails) =>
        \A j, k \in LoadedRows :
            LET a == facility_file.rows[j]
                b == facility_file.rows[k]
            IN  /\ (/\ CodeOf(a.category_subtype_of_provider) >= 0
                    /\ CodeOf(a.category_subtype_of_provider)
                          = CodeOf(b.category_subtype_of_provider))
                      => LoadedRecord(j).hospital_type
                            = LoadedRecord(k).hospital_type
                /\ (/\ CodeOf(a.type_of_control) >= 0
                    /\ CodeOf(a.type_of_control) = CodeOf(b.type_of_control))
                      => LoadedRecord(j).ownership = LoadedRecord(k).ownership

=============================================================================
